---- MODULE Spec2Model ----
(***************************************************************************)
(* GUARD backend (llm-password-reset/guard_server.py): the semantic        *)
(* password-recovery guard.  The three SQLite tables are the state, every  *)
(* HTTP handler is a sequence of steps, one step per database statement or *)
(* committed transaction, so that handlers running on different worker     *)
(* threads interleave between their reads and their writes.                *)
(*                                                                         *)
(* Text is a sequence of one-character strings.  Similarity scores are in  *)
(* hundredths (0.80 is 80).  Time is in seconds.                           *)
(***************************************************************************)
EXTENDS Integers, Sequences, FiniteSets, TLC

\* ------------------------------------------------------------- constants
MAX_ATTEMPTS == 3
COOLDOWN_MINUTES == 10
ContextWindowSeconds == 300
AuthorizedThreshold == 80
AmbiguousThreshold == 60

CooldownSeconds == COOLDOWN_MINUTES * 60

\* ---------------------------------------------------------------- bounds
MaxTicks == 5
MaxTicksConcurrent == 2
TickSeconds == 150
\* the longest text given to clean_text on its own
MaxTextLen == 4

Procs == {1, 2}
\* the worker that serves every request when requests arrive one at a time
SeqProcs == {1}
UserIds == {"alice"}
\* a user_id that no enroll request carries
NeverEnrolled == {"bob"}
\* the user_id of a verify, status or update_account request when requests
\* arrive one at a time
RequestedIds == UserIds \cup NeverEnrolled
Passwords == {<<"p">>, <<"q">>}
\* the input_text a verify request may carry, by auth_type
InputTexts(type) == IF type = "password" THEN Passwords ELSE {<<"x">>}
\* the phrase lists an enroll request may carry
PhraseLists == {<<>>, << <<"a", "&", "b">> >>}
\* and those it may carry as well where enrollments may fail at a phrase
FaultyPhraseLists == PhraseLists \cup {<< <<"a", "&", "b">>, <<"c", "-", "d">> >>}
AuthTypes == {"password", "phrase", "token"}
Salts == {"s1"}
\* what the embedding model may answer for a non-empty reference set
ScoreSamples == {59, 60, 79, 80}


VARIABLES users, phrases, auth_context, now, pc, req, frame, resp

vars == <<users, phrases, auth_context, now, pc, req, frame, resp>>

\* ------------------------------------------------------------ clean_text
WhiteSpace == {" ", "\t"}
Stripped == {"[", "]", "{", "}", "(", ")", "<", ">", "\"", "'", ":", ";",
             "#", "@", "-", "_"}

RECURSIVE ReplaceAmp(_)
ReplaceAmp(t) ==
    IF t = <<>> THEN <<>>
    ELSE (IF Head(t) = "&" THEN <<" ", "a", "n", "d", " ">> ELSE <<Head(t)>>)
         \o ReplaceAmp(Tail(t))

ReplacePunct(t) == [i \in 1..Len(t) |-> IF t[i] \in Stripped THEN " " ELSE t[i]]

RECURSIVE CollapseSpaces(_)
CollapseSpaces(t) ==
    IF t = <<>> THEN <<>>
    ELSE IF Head(t) \in WhiteSpace
         THEN IF Len(t) > 1 /\ t[2] \in WhiteSpace
              THEN CollapseSpaces(Tail(t))
              ELSE <<" ">> \o CollapseSpaces(Tail(t))
         ELSE <<Head(t)>> \o CollapseSpaces(Tail(t))

RECURSIVE StripLeft(_)
StripLeft(t) ==
    IF t # <<>> /\ Head(t) \in WhiteSpace THEN StripLeft(Tail(t)) ELSE t

RECURSIVE StripRight(_)
StripRight(t) ==
    IF t # <<>> /\ t[Len(t)] \in WhiteSpace
    THEN StripRight(SubSeq(t, 1, Len(t) - 1)) ELSE t

Strip(t) == StripRight(StripLeft(t))

\* (variant: the runs of whitespace are collapsed before the punctuation is
\* replaced by spaces)
clean_text_collapse_first(t) ==
    Strip(ReplacePunct(CollapseSpaces(ReplaceAmp(t))))

clean_text(t) == Strip(CollapseSpaces(ReplacePunct(ReplaceAmp(t))))

\* the characters of the texts given to clean_text on its own: the ampersand,
\* two of the replaced punctuation characters, a punctuation character that
\* is kept, a letter, and two kinds of whitespace
Alphabet == {"&", "-", "[", ".", "a", " ", "\t"}
Texts(n) == UNION {[1..k -> Alphabet] : k \in 0..n}

\* ------------------------------------------------- external collaborators
\* bcrypt: the digest is determined by the salt and the password
hashpw(password, salt) == [salt |-> salt, digest |-> <<salt, password>>]
\* (variant: the check compares the salt only)
checkpw_salt_only(password, hash) == hashpw(password, hash.salt).salt = hash.salt
checkpw(password, hash) == hashpw(password, hash.salt) = hash

\* the embedding of a text, and its JSON serialisation in the phrases table
encode(t) == [vec |-> t]
\* a text column holds the JSON text of a value, or text that is not JSON
json_dumps(v) == [valid |-> TRUE, json |-> v]
json_loads(s) == s.json
JSONDecodeError(s) == ~s.valid
\* a phrase column that json.loads rejects
Undecodable == [valid |-> FALSE, json |-> encode(<<>>)]

\* (variant: the model is asked also when there is no reference vector)
calculate_similarity_no_guard(input_phrase, stored_embeddings) == ScoreSamples

\* calculate_similarity: 0.0 without reference vectors, else the best cosine
calculate_similarity(input_phrase, stored_embeddings) ==
    IF stored_embeddings = <<>> THEN {0} ELSE ScoreSamples

\* ----------------------------------------------------------- the tables
NoHash == [salt |-> "", digest |-> <<>>]
NoUser == [password_hash |-> NoHash, locked_until |-> 0, attempts |-> 0]

Insert(table, key, row) ==
    [k \in DOMAIN table \cup {key} |-> IF k = key THEN row ELSE table[k]]

Delete(table, key) == [k \in DOMAIN table \ {key} |-> table[k]]

get_user(user_id) == IF user_id \in DOMAIN users THEN users[user_id] ELSE NoUser

update_attempts(user_id, attempts, locked_until) ==
    IF user_id \in DOMAIN users
    THEN [users EXCEPT ![user_id].attempts = attempts,
                       ![user_id].locked_until = locked_until]
    ELSE users

RECURSIVE SelectPhrases(_, _)
SelectPhrases(rows, user_id) ==
    IF rows = <<>> THEN <<>>
    ELSE (IF Head(rows).user_id = user_id THEN <<Head(rows).phrase>> ELSE <<>>)
         \o SelectPhrases(Tail(rows), user_id)

\* the stored vectors that decode; a row that fails to decode is skipped
RECURSIVE LoadEmbeddings(_)
LoadEmbeddings(stored_phrases) ==
    IF stored_phrases = <<>> THEN <<>>
    ELSE (IF JSONDecodeError(Head(stored_phrases)) THEN <<>>
          ELSE <<json_loads(Head(stored_phrases))>>)
         \o LoadEmbeddings(Tail(stored_phrases))

\* ------------------------------------------------------ handler locals
NoReq == [op |-> "none", user_id |-> "", input_text |-> <<>>, auth_type |-> "",
          password |-> <<>>, phrases |-> <<>>]

\* of the row that get_user returned, a handler reads only user['attempts']
\* once the lockout test and the password check are done
NoFrame == [user |-> [attempts |-> 0], current_time |-> 0, auth_status |-> "denied",
            similarity_score |-> 0, final_input_text |-> <<>>,
            context_used |-> FALSE, pw_hash |-> NoHash,
            new_attempts |-> 0, lock_until |-> 0]

NoResp == [op |-> "none", user_id |-> "", code |-> 0, status |-> "none",
           detail |-> "", score |-> 0, attempts_remaining |-> 0,
           is_locked |-> FALSE]

\* the response of endpoint op to a request about user_id
Reply(op, user_id, code, status, detail) ==
    [NoResp EXCEPT !.op = op, !.user_id = user_id, !.code = code,
                   !.status = status, !.detail = detail]

\* the handler of p returns (or raises) r
Finish(p, r) ==
    /\ pc' = [pc EXCEPT ![p] = "idle"]
    /\ req' = [req EXCEPT ![p] = NoReq]
    /\ frame' = [frame EXCEPT ![p] = NoFrame]
    /\ resp' = [resp EXCEPT ![p] = r]

Init ==
    /\ users = <<>>
    /\ phrases = <<>>
    /\ auth_context = <<>>
    /\ now = 0
    /\ pc = [p \in Procs |-> "idle"]
    /\ req = [p \in Procs |-> NoReq]
    /\ frame = [p \in Procs |-> NoFrame]
    /\ resp = [p \in Procs |-> NoResp]

\* the wall clock (datetime.utcnow) advances
Tick(max) ==
    /\ now + TickSeconds <= max * TickSeconds
    /\ now' = now + TickSeconds
    /\ UNCHANGED <<users, phrases, auth_context, pc, req, frame, resp>>

\* --------------------------------------------------------------- verify
\* (variant: an account is still locked at the instant its lock expires)
is_locked_inclusive(user, t) == user.locked_until >= t

\* the lockout test of verify and check_user_status
is_locked(user, t) == user.locked_until > t

\* (variant: a context of exactly 300 seconds still counts as valid)
context_fresh_inclusive(saved_ts, t) == t - saved_ts <= ContextWindowSeconds

\* the clarification window: a context is valid for 5 minutes
context_fresh(saved_ts, t) == t - saved_ts < ContextWindowSeconds

\* f"{saved_phrase} {req.input_text}"
combine(saved_phrase, input_text) == saved_phrase \o <<" ">> \o input_text

\* the password branch: authorized on a bcrypt match, else the default denied
check_password(input_text, user) ==
    IF checkpw(input_text, user.password_hash) THEN "authorized" ELSE "denied"

\* (variant: the gray zone asks for clarification again after a follow-up)
decide_always_ambiguous(score, context_used) ==
    IF score >= AuthorizedThreshold THEN "authorized"
    ELSE IF AmbiguousThreshold <= score /\ score < AuthorizedThreshold
         THEN "ambiguous"
         ELSE "denied"

\* (variant: the gray zone starts above 0.60)
decide_strict_ambiguous(score, context_used) ==
    IF score >= AuthorizedThreshold THEN "authorized"
    ELSE IF AmbiguousThreshold < score /\ score < AuthorizedThreshold
         THEN (IF context_used THEN "denied" ELSE "ambiguous")
         ELSE "denied"

\* (variant: a strong match must score above 0.80)
decide_strict_authorized(score, context_used) ==
    IF score > AuthorizedThreshold THEN "authorized"
    ELSE IF AmbiguousThreshold <= score /\ score <= AuthorizedThreshold
         THEN (IF context_used THEN "denied" ELSE "ambiguous")
         ELSE "denied"

\* the threshold policy of the phrase branch
decide(score, context_used) ==
    IF score >= AuthorizedThreshold THEN "authorized"
    ELSE IF AmbiguousThreshold <= score /\ score < AuthorizedThreshold
         THEN (IF context_used THEN "denied" ELSE "ambiguous")
         ELSE "denied"

\* (variant: the lockout starts one failure late)
record_failure_late(attempts, t) ==
    IF attempts + 1 > MAX_ATTEMPTS
    THEN [new_attempts |-> 0, lock_until |-> t + CooldownSeconds]
    ELSE [new_attempts |-> attempts + 1, lock_until |-> 0]

\* (variant: the counter is not reset when the lock is set)
record_failure_keeps_count(attempts, t) ==
    IF attempts + 1 >= MAX_ATTEMPTS
    THEN [new_attempts |-> attempts, lock_until |-> t + CooldownSeconds]
    ELSE [new_attempts |-> attempts + 1, lock_until |-> 0]

\* (variant: a failure counts twice)
record_failure_double(attempts, t) ==
    IF attempts + 2 >= MAX_ATTEMPTS
    THEN [new_attempts |-> 0, lock_until |-> t + CooldownSeconds]
    ELSE [new_attempts |-> attempts + 2, lock_until |-> 0]

\* (variant: the cooldown is added in minutes to a timestamp in seconds)
record_failure_minutes(attempts, t) ==
    IF attempts + 1 >= MAX_ATTEMPTS
    THEN [new_attempts |-> 0, lock_until |-> t + COOLDOWN_MINUTES]
    ELSE [new_attempts |-> attempts + 1, lock_until |-> 0]

\* the failure path: count the failure, lock and reset at the threshold
record_failure(attempts, t) ==
    IF attempts + 1 >= MAX_ATTEMPTS
    THEN [new_attempts |-> 0, lock_until |-> t + CooldownSeconds]
    ELSE [new_attempts |-> attempts + 1, lock_until |-> 0]

\* (variant: a call that is turned away from a locked account restarts the
\* cooldown)
VerifyStart_extends_lock(p, ids) ==
    /\ pc[p] = "idle"
    /\ \E id \in ids, type \in AuthTypes : \E text \in InputTexts(type) :
         LET user == get_user(id) IN
         IF id \notin DOMAIN users
         THEN /\ Finish(p, Reply("verify", id, 404, "not_found", "User not found."))
              /\ UNCHANGED <<users, phrases, auth_context, now>>
         ELSE IF is_locked(user, now)
         THEN /\ Finish(p, Reply("verify", id, 429, "locked", "Account is locked."))
              /\ users' = update_attempts(id, 0, now + CooldownSeconds)
              /\ UNCHANGED <<phrases, auth_context, now>>
         ELSE /\ req' = [req EXCEPT ![p] =
                    [NoReq EXCEPT !.op = "verify", !.user_id = id,
                                  !.input_text = text, !.auth_type = type]]
              /\ frame' = [frame EXCEPT ![p] =
                    [NoFrame EXCEPT !.user = [attempts |-> user.attempts],
                                    !.current_time = now,
                                    !.final_input_text = text,
                                    !.auth_status =
                                        IF type = "password"
                                        THEN check_password(text, user)
                                        ELSE "denied"]]
              /\ pc' = [pc EXCEPT ![p] =
                            IF type = "phrase" THEN "context" ELSE "handle"]
              /\ resp' = [resp EXCEPT ![p] = NoResp]
              /\ UNCHANGED <<users, phrases, auth_context, now>>

\* get_user, the lockout test and the password check
VerifyStart(p, ids) ==
    /\ pc[p] = "idle"
    /\ \E id \in ids, type \in AuthTypes : \E text \in InputTexts(type) :
         LET user == get_user(id) IN
         IF id \notin DOMAIN users
         THEN /\ Finish(p, Reply("verify", id, 404, "not_found", "User not found."))
              /\ UNCHANGED <<users, phrases, auth_context, now>>
         ELSE IF is_locked(user, now)
         THEN /\ Finish(p, Reply("verify", id, 429, "locked", "Account is locked."))
              /\ UNCHANGED <<users, phrases, auth_context, now>>
         ELSE /\ req' = [req EXCEPT ![p] =
                    [NoReq EXCEPT !.op = "verify", !.user_id = id,
                                  !.input_text = text, !.auth_type = type]]
              /\ frame' = [frame EXCEPT ![p] =
                    [NoFrame EXCEPT !.user = [attempts |-> user.attempts],
                                    !.current_time = now,
                                    !.final_input_text = text,
                                    !.auth_status =
                                        IF type = "password"
                                        THEN check_password(text, user)
                                        ELSE "denied"]]
              /\ pc' = [pc EXCEPT ![p] =
                            IF type = "phrase" THEN "context" ELSE "handle"]
              /\ resp' = [resp EXCEPT ![p] = NoResp]
              /\ UNCHANGED <<users, phrases, auth_context, now>>

\* the stored phrases are decoded, the effective input is scored and the
\* threshold policy is applied (the reference set of an enrolled user never
\* changes, so this part of the handler runs with the step before it)
Score(p, final_input_text, context_used) ==
    LET stored_phrases == SelectPhrases(phrases, req[p].user_id)
        stored_embeddings == LoadEmbeddings(stored_phrases)
    IN \E s \in calculate_similarity(final_input_text, stored_embeddings) :
         frame' = [frame EXCEPT
                     ![p].final_input_text = final_input_text,
                     ![p].context_used = context_used,
                     ![p].similarity_score = s,
                     ![p].auth_status = decide(s, context_used)]

\* the phrase branch reads the clarification context
VerifyReadContext(p) ==
    /\ pc[p] = "context"
    /\ LET id == req[p].user_id IN
       IF id \in DOMAIN auth_context
       THEN IF context_fresh(auth_context[id].timestamp, frame[p].current_time)
            THEN /\ Score(p, combine(auth_context[id].partial_phrase,
                                     req[p].input_text), TRUE)
                 /\ pc' = [pc EXCEPT ![p] = "handle"]
            ELSE /\ pc' = [pc EXCEPT ![p] = "expire"]
                 /\ UNCHANGED frame
       ELSE /\ Score(p, req[p].input_text, FALSE)
            /\ pc' = [pc EXCEPT ![p] = "handle"]
    /\ UNCHANGED <<users, phrases, auth_context, now, req, resp>>

\* an expired context is cleaned up, and the raw input is scored
VerifyDeleteExpired(p) ==
    /\ pc[p] = "expire"
    /\ auth_context' = Delete(auth_context, req[p].user_id)
    /\ Score(p, req[p].input_text, FALSE)
    /\ pc' = [pc EXCEPT ![p] = "handle"]
    /\ UNCHANGED <<users, phrases, now, req, resp>>

\* "handle cases": update_attempts commits on its own connection, and the
\* ambiguous branch stores the context and returns
VerifyHandle(p) ==
    /\ pc[p] = "handle"
    /\ LET id == req[p].user_id
           f == frame[p]
       IN CASE f.auth_status = "authorized" ->
                 /\ users' = update_attempts(id, 0, 0)
                 /\ pc' = [pc EXCEPT ![p] = "clear"]
                 /\ UNCHANGED <<auth_context, req, frame, resp>>
            [] f.auth_status = "ambiguous" ->
                 /\ auth_context' = Insert(auth_context, id,
                        [partial_phrase |-> f.final_input_text,
                         timestamp |-> f.current_time])
                 /\ Finish(p, [Reply("verify", id, 200, "ambiguous",
                                     "Verification unclear. Request clarification.")
                                 EXCEPT !.score = f.similarity_score])
                 /\ UNCHANGED users
            [] OTHER ->
                 LET rf == record_failure(f.user.attempts, now) IN
                 /\ users' = update_attempts(id, rf.new_attempts, rf.lock_until)
                 /\ frame' = [frame EXCEPT ![p].new_attempts = rf.new_attempts,
                                           ![p].lock_until = rf.lock_until]
                 /\ pc' = [pc EXCEPT ![p] = "clear"]
                 /\ UNCHANGED <<auth_context, req, resp>>
    /\ UNCHANGED <<phrases, now>>

\* the DELETE of the context row on the handler's own connection: committed
\* when the handler returns, rolled back when it raises the lockout error
VerifyClear(p) ==
    /\ pc[p] = "clear"
    /\ LET id == req[p].user_id
           f == frame[p]
       IN IF f.auth_status = "authorized"
          THEN /\ auth_context' = Delete(auth_context, id)
               /\ Finish(p, [Reply("verify", id, 200, "authorized", "")
                               EXCEPT !.score = f.similarity_score])
          ELSE IF f.lock_until > 0
          THEN /\ auth_context' = auth_context
               /\ Finish(p, Reply("verify", id, 429, "locked",
                                  "Too many failed attempts. Account locked."))
          ELSE /\ auth_context' = Delete(auth_context, id)
               /\ Finish(p, [Reply("verify", id, 200, "denied", "")
                               EXCEPT !.attempts_remaining =
                                          MAX_ATTEMPTS - f.new_attempts])
    /\ UNCHANGED <<users, phrases, now>>

\* --------------------------------------------------------------- enroll
EnrollStart(p, lists) ==
    /\ pc[p] = "idle"
    /\ \E id \in UserIds, password \in Passwords, list \in lists,
          salt \in Salts :
         IF id \in DOMAIN users
         THEN Finish(p, Reply("enroll", id, 400, "conflict", "User already enrolled."))
         ELSE /\ req' = [req EXCEPT ![p] =
                    [NoReq EXCEPT !.op = "enroll", !.user_id = id,
                                  !.password = password, !.phrases = list]]
              /\ frame' = [frame EXCEPT ![p] =
                    [NoFrame EXCEPT !.pw_hash = hashpw(password, salt)]]
              /\ pc' = [pc EXCEPT ![p] = "insert"]
              /\ resp' = [resp EXCEPT ![p] = NoResp]
    /\ UNCHANGED <<users, phrases, auth_context, now>>

\* (variant: users.user_id is not a key, the second INSERT goes through)
EnrollInsert_no_primary_key(p) ==
    /\ pc[p] = "insert"
    /\ LET id == req[p].user_id IN
       /\ users' = Insert(users, id,
              [password_hash |-> frame[p].pw_hash, locked_until |-> 0,
               attempts |-> 0])
       /\ phrases' = phrases \o
              [i \in 1..Len(req[p].phrases) |->
                 [user_id |-> id,
                  phrase |-> json_dumps(encode(clean_text(req[p].phrases[i])))]]
       /\ Finish(p, Reply("enroll", id, 200, "enrolled", ""))
    /\ UNCHANGED <<auth_context, now>>

\* one transaction: the account row, then one row per phrase; the primary key
\* of users fails the INSERT of a second row and the transaction rolls back
EnrollInsert(p) ==
    /\ pc[p] = "insert"
    /\ LET id == req[p].user_id IN
       IF id \in DOMAIN users
       THEN /\ Finish(p, Reply("enroll", id, 500, "error", "Internal Server Error"))
            /\ UNCHANGED <<users, phrases>>
       ELSE /\ users' = Insert(users, id,
                   [password_hash |-> frame[p].pw_hash, locked_until |-> 0,
                    attempts |-> 0])
            /\ phrases' = phrases \o
                   [i \in 1..Len(req[p].phrases) |->
                      [user_id |-> id,
                       phrase |-> json_dumps(encode(clean_text(req[p].phrases[i])))]]
            /\ Finish(p, Reply("enroll", id, 200, "enrolled", ""))
    /\ UNCHANGED <<auth_context, now>>

\* (variant: the connection commits every statement as it is executed)
rollback_autocommit(committed, working) == working

\* the with-block of a connection left by an exception: the statements of the
\* open transaction are undone
rollback(committed, working) == committed

\* the transaction of enroll fails at its k-th phrase (clean_text, the
\* embedding model or the INSERT raises): the account row and the rows of the
\* phrases before the k-th were written in the open transaction
EnrollFail(p) ==
    /\ pc[p] = "insert"
    /\ LET id == req[p].user_id IN
       /\ id \notin DOMAIN users
       /\ \E k \in 1..Len(req[p].phrases) :
            LET committed == [users |-> users, phrases |-> phrases]
                working ==
                    [users |-> Insert(users, id,
                         [password_hash |-> frame[p].pw_hash,
                          locked_until |-> 0, attempts |-> 0]),
                     phrases |-> phrases \o
                         [i \in 1..(k - 1) |->
                            [user_id |-> id,
                             phrase |-> json_dumps(encode(
                                            clean_text(req[p].phrases[i])))]]]
                after == rollback(committed, working)
            IN /\ users' = after.users
               /\ phrases' = after.phrases
       /\ Finish(p, Reply("enroll", id, 500, "error", "Internal Server Error"))
    /\ UNCHANGED <<auth_context, now>>

\* ------------------------------------------------------- update_account
\* (variant: the handler does not look the user up before its UPDATE)
UpdateStart_unchecked(p, ids) ==
    /\ pc[p] = "idle"
    /\ \E id \in ids, new_password \in Passwords :
         /\ req' = [req EXCEPT ![p] =
               [NoReq EXCEPT !.op = "update_account", !.user_id = id,
                             !.password = new_password]]
         /\ pc' = [pc EXCEPT ![p] = "update"]
         /\ resp' = [resp EXCEPT ![p] = NoResp]
         /\ UNCHANGED frame
    /\ UNCHANGED <<users, phrases, auth_context, now>>

\* get_user, 404 for an unknown user
UpdateStart(p, ids) ==
    /\ pc[p] = "idle"
    /\ \E id \in ids, new_password \in Passwords :
         IF id \notin DOMAIN users
         THEN Finish(p, Reply("update_account", id, 404, "not_found",
                              "User not found."))
         ELSE /\ req' = [req EXCEPT ![p] =
                    [NoReq EXCEPT !.op = "update_account", !.user_id = id,
                                  !.password = new_password]]
              /\ pc' = [pc EXCEPT ![p] = "update"]
              /\ resp' = [resp EXCEPT ![p] = NoResp]
              /\ UNCHANGED frame
    /\ UNCHANGED <<users, phrases, auth_context, now>>

\* (variant: a password change also clears the counters and the lock)
UpdateWrite_resets_lock(p) ==
    /\ pc[p] = "update"
    /\ \E salt \in Salts :
         users' = IF req[p].user_id \in DOMAIN users
                  THEN [users EXCEPT ![req[p].user_id] =
                            [password_hash |-> hashpw(req[p].password, salt),
                             locked_until |-> 0, attempts |-> 0]]
                  ELSE users
    /\ Finish(p, Reply("update_account", req[p].user_id, 200, "success",
                       "Password updated successfully."))
    /\ UNCHANGED <<phrases, auth_context, now>>

\* UPDATE users SET password_hash = ? WHERE user_id = ?
UpdateWrite(p) ==
    /\ pc[p] = "update"
    /\ \E salt \in Salts :
         users' = IF req[p].user_id \in DOMAIN users
                  THEN [users EXCEPT ![req[p].user_id].password_hash =
                                         hashpw(req[p].password, salt)]
                  ELSE users
    /\ Finish(p, Reply("update_account", req[p].user_id, 200, "success",
                       "Password updated successfully."))
    /\ UNCHANGED <<phrases, auth_context, now>>

\* ---------------------------------------------------- check_user_status
Status(p, ids) ==
    /\ pc[p] = "idle"
    /\ \E id \in ids :
         IF id \notin DOMAIN users
         THEN Finish(p, Reply("status", id, 404, "not_found", "User not found"))
         ELSE Finish(p, [Reply("status", id, 200, "exists", "")
                           EXCEPT !.is_locked = is_locked(get_user(id), now)])
    /\ UNCHANGED <<users, phrases, auth_context, now>>

\* ------------------------------------------------- clean_text on its own
\* cleaned_input = clean_text(input_phrase), for any input text
InitClean ==
    /\ users = <<>>
    /\ phrases = <<>>
    /\ auth_context = <<>>
    /\ now = 0
    /\ pc = [p \in Procs |-> IF p \in SeqProcs THEN "clean" ELSE "idle"]
    /\ \E t \in Texts(MaxTextLen) :
           req = [p \in Procs |->
                    IF p \in SeqProcs THEN [NoReq EXCEPT !.input_text = t]
                    ELSE NoReq]
    /\ frame = [p \in Procs |-> NoFrame]
    /\ resp = [p \in Procs |-> NoResp]

CleanStep(p) ==
    /\ pc[p] = "clean"
    /\ frame' = [frame EXCEPT
                   ![p].final_input_text = clean_text(req[p].input_text)]
    /\ pc' = [pc EXCEPT ![p] = "cleaned"]
    /\ UNCHANGED <<users, phrases, auth_context, now, req, resp>>

\* ------------------------------------------- the database file, from outside
\* a phrase row is overwritten with text that is not JSON
DamagePhrase ==
    /\ \E i \in 1..Len(phrases) :
           /\ ~JSONDecodeError(phrases[i].phrase)
           /\ phrases' = [phrases EXCEPT ![i].phrase = Undecodable]
    /\ UNCHANGED <<users, auth_context, now, pc, req, frame, resp>>

\* ---------------------------------------------------- the specifications
\* a step of the handler run by p; ids are the user_ids that the requests
\* for existing accounts may carry, lists the phrase lists of enroll requests
Step(p, ids, lists) ==
    \/ VerifyStart(p, ids)
    \/ VerifyReadContext(p)
    \/ VerifyDeleteExpired(p)
    \/ VerifyHandle(p)
    \/ VerifyClear(p)
    \/ EnrollStart(p, lists)
    \/ EnrollInsert(p)
    \/ UpdateStart(p, ids)
    \/ UpdateWrite(p)
    \/ Status(p, ids)

\* handlers run on a pool of worker threads and interleave
Next == Tick(MaxTicksConcurrent) \/ \E p \in Procs : Step(p, UserIds, PhraseLists)

Spec == Init /\ [][Next]_vars

\* one request at a time: a handler runs to its end before the next starts
NextSeq == Tick(MaxTicks) \/ \E p \in SeqProcs : Step(p, RequestedIds, PhraseLists)

SpecSeq == Init /\ [][NextSeq]_vars

\* one request at a time, and the wall clock keeps advancing
SpecLive == Init /\ [][NextSeq]_vars /\ WF_vars(Tick(MaxTicks))

\* one request at a time, with enrollments that may fail at a phrase
NextFaulty ==
    \/ Tick(MaxTicks)
    \/ \E p \in SeqProcs : Step(p, RequestedIds, FaultyPhraseLists)
    \/ \E p \in SeqProcs : EnrollFail(p)

SpecFaulty == Init /\ [][NextFaulty]_vars

\* one request at a time on a database whose phrase rows may be damaged
NextDamaged == NextSeq \/ DamagePhrase

SpecDamaged == Init /\ [][NextDamaged]_vars

\* clean_text applied to every text of up to MaxTextLen characters
NextClean == \E p \in SeqProcs : CleanStep(p)

SpecClean == InitClean /\ [][NextClean]_vars

\* ------------------------------------------------------------ properties
\* steps of the handler run by p
Started(p) == pc[p] = "idle" /\ <<pc[p], resp[p]>> # <<pc'[p], resp'[p]>>
Returned(p) == pc[p] # "idle" /\ pc'[p] = "idle"
VerifyStarted(p, id) ==
    /\ Started(p)
    /\ \/ req'[p].op = "verify" /\ req'[p].user_id = id
       \/ pc'[p] = "idle" /\ resp'[p].op = "verify" /\ resp'[p].user_id = id
VerifyReturned(p) == Returned(p) /\ req[p].op = "verify"
\* p commits the counters of a failed verification
FailureRecorded(p) ==
    pc[p] = "handle" /\ pc'[p] = "clear" /\ frame[p].auth_status = "denied"
\* p answers a failed verification
FailureReported(p) ==
    pc[p] = "clear" /\ pc'[p] = "idle" /\ frame[p].auth_status = "denied"

\* C1: in every reachable state, also with handlers interleaved, the stored
\* failed-attempts counter of every enrolled user is one of 0 .. MAX_ATTEMPTS-1.
C1_AttemptsInRange ==
    \A id \in DOMAIN users : users[id].attempts \in 0..(MAX_ATTEMPTS - 1)

\* a failure reached the threshold: the counter is back at 0 under a lock
C1_Witness ==
    \E id \in DOMAIN users :
        users[id].attempts = 0 /\ users[id].locked_until > 0

C3_LockedCallsChangeNothing ==
    [][\A p \in Procs : \A id \in DOMAIN users :
         VerifyStarted(p, id) =>
             IF users[id].locked_until > now
             THEN /\ pc'[p] = "idle"
                  /\ resp'[p].status = "locked"
                  /\ users' = users
                  /\ auth_context' = auth_context
             ELSE /\ pc'[p] # "idle"
                  /\ resp'[p].status # "locked"
      ]_vars

\* a call was turned away from a locked account
C3_Witness ==
    \E p \in Procs :
        /\ pc[p] = "idle"
        /\ resp[p].status = "locked"
        /\ resp[p].detail = "Account is locked."
        /\ users[resp[p].user_id].locked_until > now

\* C4: every failed verification counts: the counters a failing call writes
\* are those a call run alone on the stored row would write, whatever other
\* calls for the user ran since it read the row.
C4_EveryFailureCounts ==
    [][\A p \in Procs :
         FailureRecorded(p) =>
             LET id == req[p].user_id
                 serial == record_failure(users[id].attempts, now)
             IN IF is_locked(users[id], now)
                THEN users'[id] = users[id]
                ELSE /\ users'[id].attempts = serial.new_attempts
                     /\ users'[id].locked_until = serial.lock_until
      ]_vars

\* C5: a stored context is concatenated by at most one verification: no two
\* calls in flight for one user have both combined the stored context with
\* their input.
C5_ContextConsumedOnce ==
    \A p, q \in Procs :
        (/\ p # q
         /\ pc[p] \in {"handle", "clear"} /\ pc[q] \in {"handle", "clear"}
         /\ req[p].user_id = req[q].user_id)
        => ~(frame[p].context_used /\ frame[q].context_used)

\* C6 as stated: a follow-up within the window that scores below 0.80 is
\* answered denied, whatever the stored number of failures.
C6_FollowUpDenied ==
    [][\A p \in Procs :
         (/\ VerifyReturned(p)
          /\ frame[p].context_used
          /\ frame[p].similarity_score < AuthorizedThreshold)
         => resp'[p].status = "denied"
      ]_vars

\* C6, amended: a phrase verification that finds a context less than 300
\* seconds old uses it, and when its combined input scores below 0.80 it is
\* answered denied, or locked when it is the MAX_ATTEMPTS-th failure; it is
\* never answered ambiguous.
C6_FollowUpDeniedOrLocked ==
    [][\A p \in Procs :
         LET id == req[p].user_id IN
         /\ (/\ pc[p] = "context" /\ pc'[p] # "context"
             /\ id \in DOMAIN auth_context
             /\ frame[p].current_time - auth_context[id].timestamp < 300)
            => frame'[p].context_used
         /\ (/\ VerifyReturned(p)
             /\ frame[p].context_used
             /\ frame[p].similarity_score < AuthorizedThreshold)
            => resp'[p].status =
                   (IF frame[p].user.attempts + 1 < MAX_ATTEMPTS
                    THEN "denied" ELSE "locked")
      ]_vars

\* a follow-up in the gray zone was the third failure
C6_Witness ==
    \E p \in Procs :
        /\ pc[p] = "clear"
        /\ frame[p].context_used
        /\ frame[p].similarity_score \in AmbiguousThreshold..(AuthorizedThreshold - 1)
        /\ frame[p].lock_until > 0

\* C7: after a verify call answered denied or locked, the user has no
\* clarification context.
C7_NoContextAfterDenial ==
    \A p \in Procs :
        (/\ pc[p] = "idle"
         /\ resp[p].op = "verify"
         /\ resp[p].status \in {"denied", "locked"})
        => resp[p].user_id \notin DOMAIN auth_context

\* C8: a phrase verification on an unlocked account that used no context and
\* scored in [0.60, 0.80) is answered ambiguous, stores its input text with
\* the timestamp of the call as the user's context, replacing any row, and
\* leaves the account rows as they are.
C8_AmbiguousStoresContext ==
    [][\A p \in Procs :
         (/\ pc[p] = "handle" /\ pc'[p] # "handle"
          /\ req[p].auth_type = "phrase"
          /\ ~frame[p].context_used
          /\ frame[p].similarity_score >= AmbiguousThreshold
          /\ frame[p].similarity_score < AuthorizedThreshold)
         => /\ pc'[p] = "idle"
            /\ resp'[p].status = "ambiguous"
            /\ resp'[p].score = frame[p].similarity_score
            /\ auth_context' =
                   Insert(auth_context, req[p].user_id,
                          [partial_phrase |-> req[p].input_text,
                           timestamp |-> frame[p].current_time])
            /\ users' = users
      ]_vars

\* an ambiguous answer left a context behind
C8_Witness ==
    \E p \in Procs :
        /\ pc[p] = "idle"
        /\ resp[p].status = "ambiguous"
        /\ resp[p].user_id \in DOMAIN auth_context
        /\ auth_context[resp[p].user_id].timestamp < now

\* C9: a context read 300 seconds or more after it was stored is not
\* concatenated: the row is deleted and the raw input is scored as a fresh
\* attempt; a younger context is concatenated as context, space, input.
C9_ExpiredContextIgnored ==
    [][\A p \in Procs :
         LET id == req[p].user_id IN
         /\ (pc[p] = "context" /\ pc'[p] # "context" /\ id \in DOMAIN auth_context)
            => IF frame[p].current_time - auth_context[id].timestamp >= 300
               THEN pc'[p] = "expire" /\ frame'[p] = frame[p]
               ELSE /\ frame'[p].context_used
                    /\ frame'[p].final_input_text =
                           auth_context[id].partial_phrase \o <<" ">>
                               \o req[p].input_text
         /\ (pc[p] = "expire" /\ pc'[p] # "expire")
            => /\ id \notin DOMAIN auth_context'
               /\ ~frame'[p].context_used
               /\ frame'[p].final_input_text = req[p].input_text
               /\ frame'[p].auth_status =
                      (IF frame'[p].similarity_score >= AuthorizedThreshold
                       THEN "authorized"
                       ELSE IF frame'[p].similarity_score >= AmbiguousThreshold
                       THEN "ambiguous" ELSE "denied")
      ]_vars

\* a context exactly 300 seconds old was read and found expired
C9_Witness ==
    \E p \in Procs :
        /\ pc[p] = "expire"
        /\ req[p].user_id \in DOMAIN auth_context
        /\ frame[p].current_time
               - auth_context[req[p].user_id].timestamp = 300
        /\ ~frame[p].context_used

\* C10: a phrase verification on an unlocked account that scores 0.80 or
\* more, with or without a context, is answered authorized, and when it
\* returns the stored counter is 0 and the user has no context.
C10_StrongMatchAuthorizes ==
    [][\A p \in Procs :
         (/\ VerifyReturned(p)
          /\ req[p].auth_type = "phrase"
          /\ frame[p].similarity_score >= AuthorizedThreshold)
         => /\ resp'[p].status = "authorized"
            /\ resp'[p].score = frame[p].similarity_score
            /\ users'[req[p].user_id].attempts = 0
            /\ req[p].user_id \notin DOMAIN auth_context'
      ]_vars

\* a strong phrase match was answered authorized
C10_Witness ==
    \E p \in Procs :
        /\ pc[p] = "idle"
        /\ resp[p].status = "authorized"
        /\ resp[p].score >= AuthorizedThreshold
        /\ users[resp[p].user_id].attempts = 0
        /\ resp[p].user_id \notin DOMAIN auth_context

\* the handler of p returns the answer of a completed enrollment
EnrollSucceeded(p) ==
    pc[p] = "insert" /\ pc'[p] = "idle" /\ resp'[p].status = "enrolled"

\* C11: with one request at a time, a successful enroll stores a digest that
\* matches the enrolled password and no other; a password verification on an
\* unlocked account is answered authorized exactly when its input matches the
\* stored digest, and otherwise denied or locked.
C11_PasswordRoundTrip ==
    [][\A p \in Procs :
         LET id == req[p].user_id IN
         /\ EnrollSucceeded(p) =>
                \A pw \in Passwords :
                    checkpw(pw, users'[id].password_hash) <=> pw = req[p].password
         /\ (VerifyReturned(p) /\ req[p].auth_type = "password") =>
                IF \E salt \in Salts :
                       users[id].password_hash = hashpw(req[p].input_text, salt)
                THEN resp'[p].status = "authorized"
                ELSE resp'[p].status \in {"denied", "locked"}
      ]_vars

\* the enrolled password is being answered authorized
C11_Witness ==
    \E p \in Procs :
        /\ pc[p] = "clear"
        /\ req[p].auth_type = "password"
        /\ frame[p].auth_status = "authorized"
        /\ \E salt \in Salts :
               users[req[p].user_id].password_hash = hashpw(req[p].input_text, salt)

\* p starts an enroll call for id
EnrollStarted(p, id) ==
    /\ Started(p)
    /\ \/ req'[p].op = "enroll" /\ req'[p].user_id = id
       \/ pc'[p] = "idle" /\ resp'[p].op = "enroll" /\ resp'[p].user_id = id

\* the reference rows that one enrollment with the phrase list stores
ReferenceRows(list) ==
    [i \in 1..Len(list) |-> json_dumps(encode(clean_text(list[i])))]

\* every phrase row belongs to an account, and the rows of an account are
\* those of one enrollment
OneEnrollmentPerUser ==
    /\ \A i \in 1..Len(phrases) : phrases[i].user_id \in DOMAIN users
    /\ \A id \in DOMAIN users :
           \E list \in PhraseLists :
               SelectPhrases(phrases, id) = ReferenceRows(list)

\* C12: an enroll call for a user_id that is enrolled is answered 400
\* "User already enrolled." and changes no table; an enroll call that finds
\* the row at its INSERT is rejected and changes no table; and after every
\* step of every interleaving each account has the reference rows of exactly
\* one enrollment.
C12_EnrollOnce ==
    /\ []OneEnrollmentPerUser
    /\ [][\A p \in Procs : \A id \in UserIds :
            /\ (EnrollStarted(p, id) /\ id \in DOMAIN users) =>
                   /\ pc'[p] = "idle"
                   /\ resp'[p].code = 400
                   /\ resp'[p].status = "conflict"
                   /\ UNCHANGED <<users, phrases, auth_context>>
            /\ (/\ pc[p] = "insert" /\ pc'[p] # "insert"
                /\ req[p].user_id = id /\ id \in DOMAIN users) =>
                   /\ resp'[p].code = 500
                   /\ UNCHANGED <<users, phrases, auth_context>>
         ]_vars

\* of two concurrent enrolls of a new user_id with phrases, one was rejected
C12_Witness ==
    \E p \in Procs :
        /\ pc[p] = "idle"
        /\ resp[p].op = "enroll"
        /\ resp[p].code = 500
        /\ SelectPhrases(phrases, resp[p].user_id) # <<>>

\* C13: update_account on an enrolled user, locked or not, goes on to its
\* UPDATE; the UPDATE stores a digest that matches the new password and no
\* other, is answered success, and leaves the counter, the lock timestamp,
\* the phrase rows and the context rows as they are.
C13_UpdateReplacesDigestOnly ==
    [][\A p \in Procs :
         LET id == req[p].user_id IN
         /\ \A u \in DOMAIN users :
                (Started(p) /\ req'[p].op = "update_account"
                            /\ req'[p].user_id = u) => pc'[p] = "update"
         /\ (Started(p) /\ pc'[p] = "idle" /\ resp'[p].op = "update_account")
                => resp'[p].user_id \notin DOMAIN users
         /\ (pc[p] = "update" /\ pc'[p] # "update" /\ id \in DOMAIN users) =>
                /\ resp'[p].status = "success"
                /\ \A pw \in Passwords :
                       checkpw(pw, users'[id].password_hash)
                           <=> pw = req[p].password
                /\ users'[id].attempts = users[id].attempts
                /\ users'[id].locked_until = users[id].locked_until
                /\ DOMAIN users' = DOMAIN users
                /\ UNCHANGED <<phrases, auth_context>>
      ]_vars

\* the password of a locked account with a stored context was replaced
C13_Witness ==
    \E p \in Procs :
        /\ pc[p] = "idle"
        /\ resp[p].op = "update_account"
        /\ resp[p].status = "success"
        /\ users[resp[p].user_id].locked_until > now
        /\ resp[p].user_id \in DOMAIN auth_context

\* p starts a call of endpoint op for id
CallStarted(p, op, id) ==
    /\ Started(p)
    /\ \/ req'[p].op = op /\ req'[p].user_id = id
       \/ pc'[p] = "idle" /\ resp'[p].op = op /\ resp'[p].user_id = id

\* C14: a status, verify or update_account call for a user_id that has no
\* account row is answered 404 at once, and no row of any table is created,
\* changed or deleted by it.
C14_UnknownUserChangesNothing ==
    [][\A p \in Procs : \A id \in RequestedIds :
         \A op \in {"status", "verify", "update_account"} :
             (CallStarted(p, op, id) /\ id \notin DOMAIN users) =>
                 /\ pc'[p] = "idle"
                 /\ resp'[p].code = 404
                 /\ resp'[p].status = "not_found"
                 /\ UNCHANGED <<users, phrases, auth_context>>
      ]_vars

\* a call for a user_id that was never enrolled was answered 404 while the
\* three tables held the rows of another user
C14_Witness ==
    \E p \in Procs : \E id \in NeverEnrolled :
        /\ pc[p] = "idle"
        /\ resp[p].user_id = id
        /\ resp[p].code = 404
        /\ users # <<>> /\ phrases # <<>> /\ auth_context # <<>>

\* C15: clean_text is idempotent: cleaning a cleaned text gives the cleaned
\* text, for every text over the ampersand, replaced and kept punctuation,
\* letters and whitespace.
C15_CleanTextIdempotent ==
    \A p \in Procs :
        pc[p] = "cleaned" =>
            /\ frame[p].final_input_text = clean_text(req[p].input_text)
            /\ clean_text(frame[p].final_input_text) = frame[p].final_input_text

\* a text with an ampersand next to replaced punctuation and whitespace was
\* cleaned
C15_Witness ==
    \E p \in Procs :
        /\ pc[p] = "cleaned"
        /\ req[p].input_text = <<" ", "&", "-", "a">>
        /\ frame[p].final_input_text = <<"a", "n", "d", " ", "a">>

\* C16: the mutations of one verify call are all-or-nothing: a call that has
\* committed its counters (update_attempts) ends with its change of the
\* context, the removal of the user's row, applied as well, also when it ends
\* with the lockout error.
C16_VerifyAllOrNothing ==
    [][\A p \in Procs :
         (pc[p] = "clear" /\ pc'[p] = "idle") =>
             auth_context' = Delete(auth_context, req[p].user_id)
      ]_vars

\* p commits the counters of an authorized verification
SuccessRecorded(p) ==
    pc[p] = "handle" /\ pc'[p] = "clear" /\ frame[p].auth_status = "authorized"

\* C17: a verify call that is answered authorized stores failed attempts 0
\* and leaves locked_until at the value it had, also when that value is the
\* timestamp of a lock that has expired.
C17_SuccessKeepsLockTimestamp ==
    [][\A p \in Procs :
         LET id == req[p].user_id IN
         /\ SuccessRecorded(p) =>
                /\ users'[id].attempts = 0
                /\ users'[id].locked_until = users[id].locked_until
         /\ (pc[p] = "clear" /\ pc'[p] = "idle"
                 /\ frame[p].auth_status = "authorized") =>
                /\ resp'[p].status = "authorized"
                /\ users' = users
      ]_vars

\* C18: with one request at a time, a verify call that is answered denied has
\* stored the failed attempts it found plus one, and reports
\* attempts_remaining = MAX_ATTEMPTS minus the stored counter, a number in
\* 1 .. MAX_ATTEMPTS-1; the failure that finds MAX_ATTEMPTS-1 failures stored
\* is answered locked, not denied.
C18_DeniedCountsOne ==
    [][\A p \in Procs :
         LET id == req[p].user_id IN
         /\ (FailureRecorded(p) /\ users[id].attempts + 1 < MAX_ATTEMPTS) =>
                users'[id].attempts = users[id].attempts + 1
         /\ FailureReported(p) =>
                IF frame[p].user.attempts + 1 >= MAX_ATTEMPTS
                THEN resp'[p].status = "locked"
                ELSE /\ resp'[p].status = "denied"
                     /\ users'[id].attempts = frame[p].user.attempts + 1
                     /\ resp'[p].attempts_remaining =
                            MAX_ATTEMPTS - users'[id].attempts
                     /\ resp'[p].attempts_remaining \in 1..(MAX_ATTEMPTS - 1)
         /\ (VerifyReturned(p) /\ resp'[p].status = "denied") =>
                /\ FailureReported(p)
                /\ resp'[p].attempts_remaining > 0
      ]_vars

\* the second failure of a series was answered denied with one attempt left
C18_Witness ==
    \E p \in Procs :
        /\ pc[p] = "idle"
        /\ resp[p].op = "verify"
        /\ resp[p].status = "denied"
        /\ resp[p].attempts_remaining = 1
        /\ users[resp[p].user_id].attempts = MAX_ATTEMPTS - 1

\* no phrase row of id decodes (there is none, or each is skipped)
NoUsableVectors(id) ==
    \A i \in 1..Len(phrases) :
        phrases[i].user_id = id => JSONDecodeError(phrases[i].phrase)

\* C19: a phrase verification that finds no usable reference vector, because
\* the user has no phrase row or because no row decodes, scores 0, is decided
\* denied, counts as a failure and is answered denied or locked, not with a
\* server error.
C19_NoVectorsScoreZero ==
    [][\A p \in Procs :
         LET id == req[p].user_id IN
         /\ (/\ pc[p] \in {"context", "expire"} /\ pc'[p] = "handle"
             /\ NoUsableVectors(id)) =>
                /\ frame'[p].similarity_score = 0
                /\ frame'[p].auth_status = "denied"
         /\ (/\ pc[p] = "handle" /\ pc'[p] # "handle"
             /\ req[p].auth_type = "phrase"
             /\ frame[p].similarity_score = 0) =>
                /\ FailureRecorded(p)
                /\ users'[id].attempts
                       = record_failure(frame[p].user.attempts, now).new_attempts
                /\ users'[id].locked_until
                       = record_failure(frame[p].user.attempts, now).lock_until
         /\ (/\ VerifyReturned(p)
             /\ req[p].auth_type = "phrase"
             /\ frame[p].similarity_score = 0) =>
                /\ resp'[p].status \in {"denied", "locked"}
                /\ resp'[p].code \in {200, 429}
      ]_vars

\* a phrase verification of a user whose only phrase row does not decode has
\* been scored
C19_Witness ==
    \E p \in Procs :
        /\ pc[p] = "handle"
        /\ req[p].auth_type = "phrase"
        /\ SelectPhrases(phrases, req[p].user_id) # <<>>
        /\ NoUsableVectors(req[p].user_id)
        /\ frame[p].similarity_score = 0
        /\ frame[p].auth_status = "denied"

\* C20: while an account is locked (locked_until > now), no step of any
\* handler lowers or clears its locked_until, also not the write of a verify
\* call that read the account row before the lock was committed.
C20_LockNeverLowered ==
    [][\A id \in DOMAIN users :
         users[id].locked_until > now =>
             /\ id \in DOMAIN users'
             /\ users'[id].locked_until >= users[id].locked_until
      ]_vars

\* C21: in every reachable state, also with handlers interleaved, an account
\* whose locked_until is not 0 has a failed-attempts counter of 0.
C21_LockImpliesZeroAttempts ==
    \A id \in DOMAIN users :
        users[id].locked_until # 0 => users[id].attempts = 0

\* a handler has just committed a lockout and has not yet answered
C21_Witness ==
    \E p \in Procs :
        /\ pc[p] = "clear"
        /\ frame[p].lock_until > 0
        /\ users[req[p].user_id].locked_until = frame[p].lock_until
        /\ users[req[p].user_id].attempts = 0
        /\ frame[p].user.attempts = MAX_ATTEMPTS - 1

\* C22: in every reachable state the partial_phrase of a stored context is
\* the input_text of one phrase request, and every step that stores or
\* replaces a context row is the ambiguous answer of a call that used no
\* context and stores the raw input_text of that call.
C22_ContextIsRawInput ==
    /\ [](\A id \in DOMAIN auth_context :
              auth_context[id].partial_phrase \in InputTexts("phrase"))
    /\ [][\A id \in DOMAIN auth_context' :
              (id \notin DOMAIN auth_context
                   \/ auth_context'[id] # auth_context[id]) =>
                  \E p \in Procs :
                      /\ pc[p] = "handle" /\ pc'[p] = "idle"
                      /\ req[p].user_id = id
                      /\ resp'[p].status = "ambiguous"
                      /\ ~frame[p].context_used
                      /\ auth_context'[id].partial_phrase = req[p].input_text
         ]_vars

\* a follow-up has combined the stored context with its input, and the
\* stored context is still the raw input of the ambiguous call
C22_Witness ==
    \E p \in Procs :
        /\ pc[p] = "handle"
        /\ frame[p].context_used
        /\ req[p].user_id \in DOMAIN auth_context
        /\ frame[p].final_input_text =
               auth_context[req[p].user_id].partial_phrase
                   \o <<" ">> \o req[p].input_text
        /\ auth_context[req[p].user_id].partial_phrase \in InputTexts("phrase")

\* the last instant of the modelled clock
Horizon == MaxTicks * TickSeconds

Locked(id) == id \in DOMAIN users /\ users[id].locked_until > now

\* C23: with one request at a time and a clock that keeps advancing, no step
\* changes locked_until while the account is locked, so every lock that ends
\* within the modelled time is followed by a state where now >= locked_until;
\* a call that starts then is accepted, and a password verification with the
\* stored password is answered authorized and leaves failed attempts 0.
C23_LockExpires ==
    /\ [][\A id \in DOMAIN users :
              users[id].locked_until > now =>
                  /\ id \in DOMAIN users'
                  /\ users'[id].locked_until = users[id].locked_until
         ]_vars
    /\ \A id \in UserIds :
           (Locked(id) /\ users[id].locked_until <= Horizon) ~> ~Locked(id)
    /\ [][\A p \in Procs :
              LET id == req[p].user_id IN
              /\ \A u \in DOMAIN users :
                     (VerifyStarted(p, u) /\ users[u].locked_until <= now)
                         => pc'[p] # "idle"
              /\ (/\ VerifyReturned(p)
                  /\ req[p].auth_type = "password"
                  /\ checkpw(req[p].input_text, users[id].password_hash)) =>
                     /\ resp'[p].status = "authorized"
                     /\ users'[id].attempts = 0
         ]_vars

\* the stored password is verified on an account whose lock has expired
C23_Witness ==
    \E p \in Procs :
        /\ pc[p] = "handle"
        /\ req[p].auth_type = "password"
        /\ frame[p].auth_status = "authorized"
        /\ users[req[p].user_id].locked_until > 0
        /\ users[req[p].user_id].locked_until <= frame[p].current_time

\* the auth_type of the request of p is neither "password" nor "phrase"
OtherAuthType(p) == req[p].op = "verify" /\ req[p].auth_type \notin {"password", "phrase"}

\* C24: a verify call on an unlocked account with an auth_type other than
\* "password" and "phrase" inspects neither the digest nor the phrases, counts
\* as a failure (the counter is incremented, or the lock set at the
\* threshold), ends with the user's context removed, and is answered denied
\* or locked.
C24_OtherAuthTypeFails ==
    [][\A p \in Procs :
         LET id == req[p].user_id
             rf == record_failure(frame[p].user.attempts, now)
         IN /\ (Started(p) /\ pc'[p] # "idle" /\ OtherAuthType(p)') =>
                   /\ pc'[p] = "handle"
                   /\ frame'[p].auth_status = "denied"
                   /\ frame'[p].similarity_score = 0
            /\ (pc[p] = "handle" /\ pc'[p] # "handle" /\ OtherAuthType(p)) =>
                   /\ FailureRecorded(p)
                   /\ users'[id].attempts = rf.new_attempts
                   /\ users'[id].locked_until = rf.lock_until
            /\ (VerifyReturned(p) /\ OtherAuthType(p)) =>
                   /\ resp'[p].status \in {"denied", "locked"}
                   /\ id \notin DOMAIN auth_context'
      ]_vars

\* C25: an enroll call that fails while storing one of its phrases is
\* answered 500 and leaves no account row and no phrase row of the call (the
\* tables are as before the call), and an enroll call for a user_id without
\* an account row is accepted, so the user_id can be enrolled afterwards.
C25_EnrollAllOrNothing ==
    [][\A p \in Procs :
         LET id == req[p].user_id IN
         /\ (pc[p] = "insert" /\ pc'[p] = "idle" /\ ~EnrollSucceeded(p)) =>
                /\ resp'[p].code = 500
                /\ UNCHANGED <<users, phrases, auth_context>>
                /\ id \notin DOMAIN users'
                /\ SelectPhrases(phrases', id) = <<>>
         /\ EnrollSucceeded(p) =>
                /\ id \notin DOMAIN users /\ id \in DOMAIN users'
                /\ SelectPhrases(phrases', id) = ReferenceRows(req[p].phrases)
         /\ \A u \in UserIds :
                (EnrollStarted(p, u) /\ u \notin DOMAIN users)
                    => pc'[p] = "insert"
      ]_vars

\* an enrollment has failed at one of its phrases and has left no row behind
C25_Witness ==
    \E p \in Procs :
        /\ pc[p] = "idle"
        /\ resp[p].op = "enroll"
        /\ resp[p].code = 500
        /\ resp[p].user_id \notin DOMAIN users
        /\ phrases = <<>>

====
